---- MODULE Spec2Model ----
(***************************************************************************)
(* The sample Flask application of app/main.py and its gunicorn            *)
(* configuration app/gunicorn_config.py, as a state machine.               *)
(*                                                                         *)
(* A slot is one execution context that serves one request at a time: a    *)
(* thread of the threaded development server started by app.run, or one    *)
(* of the gunicorn worker processes.  Each handler is a program, a         *)
(* sequence of instructions in source order; one action executes one       *)
(* instruction.  Time is counted in thirds of a millisecond, so that the   *)
(* three sleeps of delay/3 of /api/slow are exact.                         *)
(***************************************************************************)
EXTENDS Integers, Sequences, FiniteSets, TLC

\* gunicorn_config.py: workers = 2
workers == 2
\* Threads of the development server that serve requests at the same time.
MaxThreads == 2
\* Largest time by which one time.sleep call oversleeps, in thirds of a ms.
MaxOvershoot == 1
\* Logger calls made outside any request.
MaxAppLog == 1
\* Items a batch processor's queue holds before it drops what comes next.
MaxQueue == 2

Slots == 1..(IF MaxThreads > workers THEN MaxThreads ELSE workers)

Paths == {"/", "/api", "/api/users", "/api/orders", "/api/slow", "/error", "/health"}

\* User-Agent headers: an ordinary one, and one so long that a log line
\* carrying it is larger than one atomic write to a pipe.
ShortUserAgent == "curl/8.4.0"
LongUserAgent == "Mozilla/5.0 (8000 bytes)"
UserAgents == {ShortUserAgent, LongUserAgent}

\* The first eight characters of uuid4 values.
RequestIds == {"3f2a9c1e", "b07d44aa"}

ErrorTypes == {"ValueError", "RuntimeError", "KeyError"}

\* random.uniform(0.5, 2.0), in milliseconds.
SlowDelayMin == 500
SlowDelayMax == 2000
SlowDelaysFine == SlowDelayMin..SlowDelayMax
\* The delays drawn where timing is not the question.
SlowDelaysCoarse == {1236}

None == "None"
NoFields == [k \in {} |-> None]

(***************************************************************************)
(* Environment and clock conversions                                       *)
(***************************************************************************)
Unset == "<unset>"
EnvVars == {"DD_SERVICE", "OTEL_SERVICE_NAME", "DD_ENV", "OTEL_ENVIRONMENT"}

getenv(env, name, default) ==
    IF name \notin DOMAIN env \/ env[name] = Unset THEN default ELSE env[name]

\* The values the variables are set to, at startup or later.
EnvValues == {Unset, "staging"}

\* Resource.create({...}): the service and deployment attributes.
Resource_create(env) ==
    ("service.name" :> getenv(env, "DD_SERVICE",
                              getenv(env, "OTEL_SERVICE_NAME", "sample-app")))
    @@ ("service.version" :> getenv(env, "DD_VERSION", "1.0.0"))
    @@ ("deployment.environment" :> getenv(env, "DD_ENV",
                                           getenv(env, "OTEL_ENVIRONMENT", "demo")))

\* time.time() readings taken for log records, and their UTC rendering.
Epoch == "1762177200.0"
utcfromtimestamp_isoformat(created) ==
    IF created = Epoch THEN "2025-11-03T13:40:00" ELSE "1970-01-01T00:00:00"

\* round(duration_ms, 2) of a duration given in thirds of a millisecond:
\* the nearest hundredth of a millisecond (no ties: 100 is no multiple of 3).
round_ms2(thirds) == (200 * thirds + 3) \div 6

\* round(delay, 2) of a delay given in milliseconds, in hundredths of a
\* second.  A value that ends in 5 ms is no exact binary float: the float
\* drawn next to it rounds down or up.
round2(ms) ==
    LET lo == ms \div 10
        rem == ms % 10
    IN IF rem < 5 THEN {lo} ELSE IF rem > 5 THEN {lo + 1} ELSE {lo, lo + 1}

(***************************************************************************)
(* format(n, '032x') and format(n, '016x')                                 *)
(*                                                                         *)
(* A trace identifier has up to 128 bits and a span identifier up to 64:   *)
(* an identifier is the sequence of its 16-bit limbs, the most significant *)
(* first and not zero; the identifier zero is the empty sequence.  A       *)
(* formatted string is the sequence of its characters.                     *)
(***************************************************************************)
HexDigits == <<"0", "1", "2", "3", "4", "5", "6", "7",
               "8", "9", "a", "b", "c", "d", "e", "f">>

\* The hexadecimal digits of a limb, without leading zeros.
RECURSIVE hex(_)
hex(n) == IF n < 16 THEN <<HexDigits[n + 1]>>
          ELSE hex(n \div 16) \o <<HexDigits[(n % 16) + 1]>>

RECURSIVE zfill(_, _)
zfill(s, width) == IF Len(s) >= width THEN s ELSE zfill(<<"0">> \o s, width)

\* The hexadecimal digits of an identifier, without leading zeros.
RECURSIVE hex_id(_)
hex_id(n) ==
    IF n = <<>> THEN <<"0">>
    ELSE IF Len(n) = 1 THEN hex(n[1])
    ELSE hex_id(SubSeq(n, 1, Len(n) - 1)) \o zfill(hex(n[Len(n)]), 4)

\* format(n, 'x'): the digits with no minimum width.
format_x_unpadded(n, width) == hex_id(n)

\* format(n, '0<width>x'): zero-padded to at least width characters.
format_x(n, width) == zfill(hex_id(n), width)

(***************************************************************************)
(* Spans and span contexts                                                 *)
(***************************************************************************)
INVALID_SPAN_CONTEXT == [trace_id |-> <<>>, span_id |-> <<>>]

is_valid(sc) == sc.trace_id # <<>> /\ sc.span_id # <<>>

\* Identifiers of the SDK's id generator: fresh for every span in flight.
generate_trace_id(r) == <<4096 + r>>
generate_span_id(r, idx) == <<16 * r + idx>>

\* Identifiers the generator can draw, up to the largest of each width.
TraceIdSamples == {<<1>>, <<43981>>, <<1, 0, 0, 0, 0, 0, 0, 0>>,
                   <<65535, 65535, 65535, 65535, 65535, 65535, 65535, 65535>>}
SpanIdSamples == {<<1>>, <<255, 0>>, <<65535, 65535, 65535, 65535>>}

\* A context kept per process: every request reads and writes the same one.
ContextKey_process(r) == 0

\* The execution context a request's ambient state is keyed by.
ContextKey(r) == r

(***************************************************************************)
(* CustomJsonFormatter                                                     *)
(***************************************************************************)
LogRecord(name, level, msg, extra, created) ==
    [name |-> name, levelname |-> level, msg |-> msg, extra |-> extra,
     created |-> created]

\* jsonlogger.JsonFormatter.add_fields for the format string
\* '%(timestamp)s %(level)s %(name)s %(message)s': the required fields
\* from the record (None when the record has no such attribute), then the
\* record's extra attributes.
JsonFormatter_add_fields(record) ==
    record.extra @@ [timestamp |-> None, level |-> None,
                     name |-> record.name, message |-> record.msg]

\* The identifiers of the trace's root taken for those of the current span.
TraceFields_root(sc) ==
    IF is_valid(sc)
    THEN [trace_id |-> format_x(sc.trace_id, 32),
          span_id |-> format_x([sc.span_id EXCEPT ![Len(sc.span_id)] =
                                                      16 * (@ \div 16) + 1], 16)]
    ELSE NoFields

TraceFields(sc) ==
    IF is_valid(sc)
    THEN [trace_id |-> format_x(sc.trace_id, 32),
          span_id |-> format_x(sc.span_id, 16)]
    ELSE NoFields

FixedFields(record, env) ==
    [service |-> "sample-app",
     environment |-> getenv(env, "OTEL_ENVIRONMENT", "demo"),
     level |-> record.levelname,
     logger |-> record.name,
     timestamp |-> utcfromtimestamp_isoformat(record.created) \o "Z"]

\* The formatter's values put first and the caller's fields laid over them.
add_fields_caller_last(record, sc, env) ==
    TraceFields(sc) @@ JsonFormatter_add_fields(record) @@ FixedFields(record, env)

\* The assignments made after super().add_fields replace what it put there.
add_fields(record, sc, env) ==
    TraceFields(sc) @@ FixedFields(record, env) @@ JsonFormatter_add_fields(record)

(***************************************************************************)
(* Handler programs                                                        *)
(***************************************************************************)
Open(name, attrs) == [op |-> "open", name |-> name, attrs |-> attrs]
Log(level, msg, extra) == [op |-> "log", level |-> level, msg |-> msg, extra |-> extra]
Sleep(lo, hi) == [op |-> "sleep", lo |-> lo, hi |-> hi]
Close == [op |-> "close"]
Return(status, body) == [op |-> "return", status |-> status, body |-> body]
Uniform == [op |-> "uniform"]
Choice == [op |-> "choice"]
Raise == [op |-> "raise"]
Except(classes) == [op |-> "except", classes |-> classes]

\* time.sleep(random.uniform(lo, hi)) with lo and hi in milliseconds.
SleepMs(lo, hi) == Sleep(3 * lo, 3 * hi)

\* HTML_TEMPLATE: the number of logs each endpoint card of the page shows.
CardLogs == ("/api/users" :> 7) @@ ("/api/orders" :> 9)
            @@ ("/api/slow" :> 6) @@ ("/error" :> 6)

home(rid) == <<
    Open("home-handler", [route |-> "/", handler |-> "home"]),
    Log("INFO", "Serving web UI",
        [request_id |-> rid, handler |-> "home", response_type |-> "html"]),
    Return(200, [html |-> "HTML_TEMPLATE"]),
    Close >>

api_home(rid) == <<
    Open("api-home-handler", [route |-> "/api", handler |-> "api_home"]),
    Log("INFO", "Processing API home request",
        [request_id |-> rid, handler |-> "api_home", action |-> "processing"]),
    Return(200, [message |-> "Welcome to the OTEL Demo App API!",
                 endpoints |-> 7, request_id |-> rid]),
    Close >>

get_users(rid) == <<
    Open("users-handler", [route |-> "/api/users"]),
    Log("INFO", "Starting user fetch operation",
        [request_id |-> rid, handler |-> "get_users", action |-> "start"]),
    Open("validate-request", [type |-> "user_request"]),
    SleepMs(2, 5),
    Log("DEBUG", "Request validation passed",
        [request_id |-> rid, validation |-> "passed"]),
    Close,
    Open("db-query", [system |-> "postgresql", name |-> "users_db"]),
    SleepMs(10, 50),
    Log("INFO", "Database query executed",
        [request_id |-> rid, db_system |-> "postgresql", db_operation |-> "SELECT",
         table |-> "users", rows_returned |-> 3]),
    Close,
    Open("transform-data", [input_count |-> 3]),
    SleepMs(1, 3),
    Log("DEBUG", "Data transformation complete",
        [request_id |-> rid, user_count |-> 3]),
    Close,
    Log("INFO", "User fetch completed successfully",
        [request_id |-> rid, handler |-> "get_users", action |-> "complete",
         user_count |-> 3]),
    Return(200, [users |-> <<"Alice", "Bob", "Charlie">>, count |-> 3,
                 request_id |-> rid]),
    Close >>

get_orders(rid) == <<
    Open("orders-handler", [route |-> "/api/orders"]),
    Log("INFO", "Starting order processing",
        [request_id |-> rid, handler |-> "get_orders", action |-> "start"]),
    Open("auth-check", [method |-> "token"]),
    SleepMs(3, 8),
    Log("DEBUG", "Authentication verified",
        [request_id |-> rid, auth_method |-> "token", auth_result |-> "success"]),
    Close,
    Open("db-query-orders", [system |-> "postgresql", name |-> "orders_db"]),
    SleepMs(20, 60),
    Log("INFO", "Orders query executed",
        [request_id |-> rid, db_system |-> "postgresql", table |-> "orders",
         rows_returned |-> 2]),
    Close,
    Open("enrich-user-data", [type |-> "user_details"]),
    SleepMs(10, 20),
    Log("DEBUG", "Enriching orders with user data",
        [request_id |-> rid, order_count |-> 2]),
    Close,
    Open("calculate-totals", [total_items |-> 8]),
    Log("INFO", "Order totals calculated",
        [request_id |-> rid, total_items |-> 8, order_count |-> 2]),
    Close,
    Log("INFO", "Order processing completed",
        [request_id |-> rid, handler |-> "get_orders", action |-> "complete",
         order_count |-> 2]),
    Return(200, [orders |-> <<101, 102>>, count |-> 2, request_id |-> rid]),
    Close >>

\* delay is the drawn delay in milliseconds and delay_r2 is round(delay, 2)
\* in hundredths of a second; both are read only after Uniform has drawn them.
PhaseSpanNames == <<"slow-phase-1", "slow-phase-2", "slow-phase-3">>
PhaseMessages == <<"Slow operation phase 1 complete",
                   "Slow operation phase 2 complete",
                   "Slow operation phase 3 complete">>

\* One pass of the loop with the delay divided by one phase too many.
slow_phase_short(rid, delay, i) == <<
    Open(PhaseSpanNames[i], [number |-> i]),
    Sleep((3 * delay) \div 4, (3 * delay) \div 4),
    Log("DEBUG", PhaseMessages[i], [request_id |-> rid, phase |-> i]),
    Close >>

\* One pass of the loop: phase_delay = delay / phases is delay thirds of a ms.
slow_phase(rid, delay, i) == <<
    Open(PhaseSpanNames[i], [number |-> i]),
    Sleep(delay, delay),
    Log("DEBUG", PhaseMessages[i], [request_id |-> rid, phase |-> i]),
    Close >>

slow_endpoint(rid, delay, delay_r2) ==
    << Open("slow-operation", [route |-> "/api/slow", type |-> "slow_simulation"]),
       Uniform,
       Log("WARNING", "Starting slow operation",
           [request_id |-> rid, handler |-> "slow_endpoint",
            expected_delay_seconds |-> delay_r2, warning_type |-> "latency"]) >>
    \o slow_phase(rid, delay, 1) \o slow_phase(rid, delay, 2) \o slow_phase(rid, delay, 3)
    \o << Log("WARNING", "Slow operation completed",
              [request_id |-> rid, handler |-> "slow_endpoint",
               actual_delay_seconds |-> delay_r2, warning_type |-> "latency_complete"]),
          Return(200, [message |-> "Slow operation completed",
                       delay_seconds |-> delay_r2, phases |-> 3, request_id |-> rid]),
          Close >>

\* The message each simulated error is raised with.
ErrorMessage(type) ==
    CASE type = "ValueError" -> "Simulated validation error - invalid input data"
      [] type = "RuntimeError" -> "Simulated runtime error - service unavailable"
      [] OTHER -> "Simulated key error - missing configuration"

\* The branches with the last two raise statements exchanged.
RaisedClass_exchanged(error_type) ==
    CASE error_type = "ValueError" -> "ValueError"
      [] error_type = "RuntimeError" -> "KeyError"
      [] OTHER -> "RuntimeError"

\* The class the raise statement selected by error_type raises.
RaisedClass(error_type) ==
    CASE error_type = "ValueError" -> "ValueError"
      [] error_type = "RuntimeError" -> "RuntimeError"
      [] OTHER -> "KeyError"

\* str(e): KeyError renders the repr of its argument.
str_exc(e) == IF e.type = "KeyError" THEN "'" \o e.msg \o "'" ELSE e.msg

\* The handler with the 'pre-error-work' span started and never ended.
error_endpoint_unclosed(rid, e) == <<
    Open("error-operation", [route |-> "/error", simulated |-> TRUE]),
    Log("INFO", "Processing error simulation request",
        [request_id |-> rid, handler |-> "error_endpoint", action |-> "start"]),
    Open("pre-error-work", NoFields),
    SleepMs(10, 20),
    Log("DEBUG", "Pre-error processing",
        [request_id |-> rid, stage |-> "pre_error"]),
    Choice,
    Raise,
    Except({"Exception"}),
    Log("ERROR", "Error occurred during request processing",
        [request_id |-> rid, handler |-> "error_endpoint", error_type |-> e.type,
         error_message |-> str_exc(e), status_code |-> 500]),
    Log("ERROR", "Error details for debugging",
        [request_id |-> rid, exception_class |-> e.type,
         recovery_action |-> "retry_recommended"]),
    Return(500, [error |-> str_exc(e), error_type |-> e.type, request_id |-> rid]),
    Close >>

\* The handler with a clause that takes ValueError only.
error_endpoint_narrow(rid, e) == <<
    Open("error-operation", [route |-> "/error", simulated |-> TRUE]),
    Log("INFO", "Processing error simulation request",
        [request_id |-> rid, handler |-> "error_endpoint", action |-> "start"]),
    Open("pre-error-work", NoFields),
    SleepMs(10, 20),
    Log("DEBUG", "Pre-error processing",
        [request_id |-> rid, stage |-> "pre_error"]),
    Close,
    Choice,
    Raise,
    Except({"ValueError"}),
    Log("ERROR", "Error occurred during request processing",
        [request_id |-> rid, handler |-> "error_endpoint", error_type |-> e.type,
         error_message |-> str_exc(e), status_code |-> 500]),
    Log("ERROR", "Error details for debugging",
        [request_id |-> rid, exception_class |-> e.type,
         recovery_action |-> "retry_recommended"]),
    Return(500, [error |-> str_exc(e), error_type |-> e.type, request_id |-> rid]),
    Close >>

\* e is the exception bound by the except clause; it is read only after it.
error_endpoint(rid, e) == <<
    Open("error-operation", [route |-> "/error", simulated |-> TRUE]),
    Log("INFO", "Processing error simulation request",
        [request_id |-> rid, handler |-> "error_endpoint", action |-> "start"]),
    Open("pre-error-work", NoFields),
    SleepMs(10, 20),
    Log("DEBUG", "Pre-error processing",
        [request_id |-> rid, stage |-> "pre_error"]),
    Close,
    Choice,
    Raise,
    Except({"Exception"}),
    Log("ERROR", "Error occurred during request processing",
        [request_id |-> rid, handler |-> "error_endpoint", error_type |-> e.type,
         error_message |-> str_exc(e), status_code |-> 500]),
    Log("ERROR", "Error details for debugging",
        [request_id |-> rid, exception_class |-> e.type,
         recovery_action |-> "retry_recommended"]),
    Return(500, [error |-> str_exc(e), error_type |-> e.type, request_id |-> rid]),
    Close >>

\* A health check that reports the last failure of the process.
health_degraded == <<
    Open("health-check", [status |-> "degraded"]),
    Return(503, [status |-> "degraded", service |-> "sample-app"]),
    Close >>

health == <<
    Open("health-check", [status |-> "healthy"]),
    Return(200, [status |-> "healthy", service |-> "sample-app"]),
    Close >>

(***************************************************************************)
(* State                                                                   *)
(***************************************************************************)
VARIABLES
    server,     \* "none" before start, then "flask" (python main.py) or "gunicorn"
    environ,    \* os.environ
    resource,   \* the Resource built when the module is loaded
    path,       \* path[r]: the path of the request slot r serves
    ua,         \* ua[r]: its User-Agent header
    pc,         \* pc[r]: where slot r is in the request lifecycle
    ip,         \* ip[r]: the next instruction of the handler program
    g,          \* g[r]: flask.g of the request: request_id, start_time
    rnd,        \* rnd[r]: the values drawn by random.uniform and random.choice
    exc,        \* exc[r]: the exception raised in the handler
    context,    \* context[k]: the span context that is current in context k
    frames,     \* frames[r]: the open with-blocks: span id and context token
    spans,      \* spans[r]: the spans started for the request
    logs,       \* logs[r]: the records the application logger rendered for it
    response,   \* response[r]: the response value: status and body
    elapsed,    \* elapsed[r]: time spent in the request, in thirds of a ms
    stdout,     \* the tail of standard output: the unfinished and the last line
    wr,         \* wr[r]: slot r is in the middle of a write to standard output
    applog,     \* the records rendered outside any request
    printed,    \* printed[k]: the line the gunicorn hook printed last in k
    collector,  \* what the collector does with an export: "healthy", "slow", "unreachable"
    span_queue, \* ended spans waiting in the BatchSpanProcessor
    log_queue,  \* records waiting in the BatchLogRecordProcessor
    export_result  \* how the background sender's last export ended

vars == <<server, environ, resource, path, ua, pc, ip, g, rnd, exc, context, frames, spans,
          logs, response, elapsed, stdout, wr, applog, printed, collector,
          span_queue, log_queue, export_result>>

MainThread == 0
Contexts == {MainThread} \cup Slots

NoG == [request_id |-> None, start_time |-> 0]
NoRnd == [delay |-> 0, delay_r2 |-> 0, error_type |-> None]
NoExc == [type |-> None, msg |-> None, state |-> "none"]
NoResponse == [status |-> 0, body |-> NoFields]

\* The state when the module has been loaded with the environment env.
Loaded(env) ==
    /\ server = "none"
    /\ environ = env
    /\ resource = Resource_create(env)
    /\ path = [r \in Slots |-> None]
    /\ ua = [r \in Slots |-> None]
    /\ pc = [r \in Slots |-> "idle"]
    /\ ip = [r \in Slots |-> 0]
    /\ g = [r \in Slots |-> NoG]
    /\ rnd = [r \in Slots |-> NoRnd]
    /\ exc = [r \in Slots |-> NoExc]
    /\ context = [k \in Contexts |-> INVALID_SPAN_CONTEXT]
    /\ frames = [r \in Slots |-> <<>>]
    /\ spans = [r \in Slots |-> <<>>]
    /\ logs = [r \in Slots |-> <<>>]
    /\ response = [r \in Slots |-> NoResponse]
    /\ elapsed = [r \in Slots |-> 0]
    /\ stdout = [partial |-> <<>>, last |-> <<>>]
    /\ wr = [r \in Slots |-> FALSE]
    /\ applog = <<>>
    /\ printed = [k \in Contexts |-> NoFields]
    /\ collector = "healthy"
    /\ span_queue = 0
    /\ log_queue = 0
    /\ export_result = "none"

Init == Loaded([v \in EnvVars |-> Unset])

\* Started with any setting of the four variables.
InitEnv == \E env \in [EnvVars -> EnvValues] : Loaded(env)

\* logging.getLogger(__name__): the module runs as a script or is imported.
LoggerName(srv) == IF srv = "flask" THEN "__main__" ELSE "main"

\* The slots that serve requests: the threads of app.run, or the workers.
Serving(srv) ==
    CASE srv = "flask" -> 1..MaxThreads
      [] srv = "gunicorn" -> 1..workers
      [] OTHER -> {}

\* One g object for the whole process: the one of the first slot.
flask_g_process(r) == g[1]

\* flask.g as the code of slot r sees it: the object of its own request.
flask_g(r) == g[r]

Program(r) ==
    CASE path[r] = "/" -> home(flask_g(r).request_id)
      [] path[r] = "/api" -> api_home(flask_g(r).request_id)
      [] path[r] = "/api/users" -> get_users(flask_g(r).request_id)
      [] path[r] = "/api/orders" -> get_orders(flask_g(r).request_id)
      [] path[r] = "/api/slow" ->
            slow_endpoint(flask_g(r).request_id, rnd[r].delay, rnd[r].delay_r2)
      [] path[r] = "/error" -> error_endpoint(flask_g(r).request_id, exc[r])
      [] OTHER -> health

Instr(r) == Program(r)[ip[r]]

AtOp(r, op) ==
    /\ pc[r] = "handler"
    /\ ~wr[r]
    /\ Instr(r).op = op

\* The handler's end with no exit hook registered: straight to the teardown.
Advance_unhooked(r) ==
    IF ip[r] = Len(Program(r))
    THEN /\ pc' = [pc EXCEPT ![r] = "teardown"]
         /\ ip' = [ip EXCEPT ![r] = 0]
    ELSE /\ ip' = [ip EXCEPT ![r] = @ + 1]
         /\ UNCHANGED pc

\* After the instruction at ip[r]: the next one, or the exit hook.
Advance(r) ==
    IF ip[r] = Len(Program(r))
    THEN /\ pc' = [pc EXCEPT ![r] = "after_request"]
         /\ ip' = [ip EXCEPT ![r] = 0]
    ELSE /\ ip' = [ip EXCEPT ![r] = @ + 1]
         /\ UNCHANGED pc

(***************************************************************************)
(* Tracing                                                                 *)
(***************************************************************************)
\* trace.get_current_span().get_span_context() in the context of slot r.
get_current_span(k) == context[ContextKey(k)]

SpanContext(s) == [trace_id |-> s.trace_id, span_id |-> s.span_id]

\* The position the next start or end of a span of the request takes.
NextSeq(sp) == 1 + Len(sp) + Cardinality({i \in 1..Len(sp) : sp[i].ends > 0})

\* The innermost span the request itself started and has not ended.
InnermostOpen(r) ==
    LET open == {i \in 1..Len(spans[r]) : spans[r][i].ends = 0}
    IN IF open = {} THEN INVALID_SPAN_CONTEXT
       ELSE SpanContext(spans[r][CHOOSE i \in open :
                                   \A j \in open : spans[r][j].start <= spans[r][i].start])

NewSpan(r, name, parent, attrs) ==
    [name |-> name,
     span_id |-> generate_span_id(r, Len(spans[r]) + 1),
     trace_id |-> IF is_valid(parent) THEN parent.trace_id ELSE generate_trace_id(r),
     parent_id |-> parent.span_id,
     resource |-> resource,
     start |-> NextSeq(spans[r]),
     end |-> 0,
     ends |-> 0,
     attrs |-> attrs,
     status |-> "UNSET",
     exceptions |-> <<>>]

\* The spans after span.set_attribute(...) calls on the span with context sc.
WithAttrs(sp, sc, attrs) ==
    [q \in Slots |->
        [i \in 1..Len(sp[q]) |->
            IF sp[q][i].span_id = sc.span_id /\ sp[q][i].ends = 0
            THEN [sp[q][i] EXCEPT !.attrs = attrs @@ @]
            ELSE sp[q][i]]]

\* span.end() of the span with identifier sid, among the spans of slot r.
EndSpan(sp, sid) ==
    [i \in 1..Len(sp) |->
        IF sp[i].span_id = sid
        THEN [sp[i] EXCEPT !.ends = @ + 1,
                           !.end = IF @ = 0 THEN NextSeq(sp) ELSE @]
        ELSE sp[i]]

(***************************************************************************)
(* Logging                                                                 *)
(***************************************************************************)
\* A line is larger than one atomic pipe write when it carries the long
\* User-Agent header.
Oversized(line) ==
    \/ "user_agent" \in DOMAIN line /\ line.user_agent = LongUserAgent
    \/ "http" \in DOMAIN line /\ line.http.user_agent = LongUserAgent

\* What one write puts on the stream: a whole line, or the head or the tail
\* of a line, which is told apart by its writer w.
Chunk(w, part) == [of |-> IF part = "whole" THEN 0 ELSE w, part |-> part]

\* One write(2) that carries the end of a line.
WriteEnd(out, w, part) ==
    [partial |-> <<>>, last |-> Append(out.partial, Chunk(w, part))]

\* stream.write(line + "\n") and flush by writer w.  The threads of one
\* process write under the handler's lock; worker processes share the pipe
\* without one, and a line larger than an atomic write goes out in two parts.
StreamWrite(srv, w, line) ==
    IF srv = "gunicorn" /\ Oversized(line)
    THEN /\ stdout' = [stdout EXCEPT !.partial = Append(@, Chunk(w, "head"))]
         /\ wr' = [wr EXCEPT ![w] = TRUE]
    ELSE /\ stdout' = WriteEnd(stdout, w, "whole")
         /\ UNCHANGED wr

\* A batch processor's queue after n more items are put in it: what does
\* not fit is dropped.
Enqueued(q, n) == IF q + n > MaxQueue THEN MaxQueue ELSE q + n

\* The record exported inline, as a simple processor does: the call returns
\* when the collector has taken the record.
on_emit_inline ==
    /\ collector = "healthy"
    /\ UNCHANGED log_queue

\* LoggingHandler.emit with the BatchLogRecordProcessor: the record is put
\* in the queue and the call returns, whatever the collector does.
on_emit == log_queue' = Enqueued(log_queue, 1)

\* BatchSpanProcessor.on_end for n spans that end.
on_end(n) == span_queue' = Enqueued(span_queue, n)

\* logging's numeric levels.
LevelNo(level) ==
    CASE level = "DEBUG" -> 10
      [] level = "INFO" -> 20
      [] level = "WARNING" -> 30
      [] OTHER -> 40

\* root_logger.handlers in the order they were added, each with its level.
root_handlers == <<[name |-> "console_handler", level |-> "DEBUG"],
                   [name |-> "otel_handler", level |-> "DEBUG"]>>

\* The root logger's level.
root_level == "DEBUG"

\* Logger.callHandlers: the handlers a record of the application logger
\* is given to, in order.
callHandlers(record) ==
    LET passes(h) == /\ LevelNo(record.levelname) >= LevelNo(root_level)
                     /\ LevelNo(record.levelname) >= LevelNo(h.level)
        hs == SelectSeq(root_handlers, passes)
    IN [i \in 1..Len(hs) |-> hs[i].name]

Handles(name, record) ==
    \E i \in 1..Len(callHandlers(record)) : callHandlers(record)[i] = name

\* The record given to the handlers: the console handler renders and writes
\* line as writer w, the OTLP handler hands the record to its processor.
handle(srv, w, record, line) ==
    /\ IF Handles("console_handler", record)
       THEN StreamWrite(srv, w, line)
       ELSE UNCHANGED <<stdout, wr>>
    /\ IF Handles("otel_handler", record)
       THEN on_emit
       ELSE UNCHANGED log_queue

\* What is kept of one emission: the call's record, the rendered line, the
\* innermost span the emitting request had open at that moment, and the
\* handlers the record was given to.
Entry(record, line, at) ==
    [record |-> record, line |-> line, at |-> at, handled_by |-> callHandlers(record)]

\* logger.<level>(msg, extra=extra) in slot r: the record goes to the
\* console handler, which renders it with the formatter and writes it.
emit(r, level, msg, extra) ==
    LET record == LogRecord(LoggerName(server), level, msg, extra, Epoch)
        line == add_fields(record, get_current_span(r), environ)
    IN /\ logs' = [logs EXCEPT ![r] = Append(@, Entry(record, line, InnermostOpen(r)))]
       /\ handle(server, r, record, line)

\* The rest of a line that did not go out in one write.
write_rest(r) ==
    /\ wr[r]
    /\ stdout' = WriteEnd(stdout, r, "tail")
    /\ wr' = [wr EXCEPT ![r] = FALSE]
    /\ UNCHANGED <<server, environ, resource, path, ua, pc, ip, g, rnd, exc, context, frames,
                   spans, logs, response, elapsed, applog, printed,
                   collector, export_result, log_queue, span_queue>>

(***************************************************************************)
(* Process start                                                           *)
(***************************************************************************)
\* python main.py: the startup record, then app.run serves with threads.
main ==
    /\ server = "none"
    /\ server' = "flask"
    /\ LET record == LogRecord(LoggerName("flask"), "INFO", "Application starting",
                               [action |-> "startup",
                                otlp_endpoint |-> "http://otel-collector:4317",
                                service |-> "sample-app",
                                version |-> "1.0.0"],
                               Epoch)
           line == add_fields(record, get_current_span(MainThread), environ)
       IN /\ applog' = Append(applog, Entry(record, line, INVALID_SPAN_CONTEXT))
          /\ handle("flask", MainThread, record, line)
    /\ UNCHANGED <<environ, resource, path, ua, pc, ip, g, rnd, exc, context, frames, spans,
                   logs, response, elapsed, printed,
                   collector, export_result, span_queue>>

\* gunicorn's on_starting hook, in the master before the workers exist.
on_starting ==
    /\ server = "none"
    /\ server' = "gunicorn"
    /\ LET log_data == [timestamp |-> utcfromtimestamp_isoformat(Epoch) \o "Z",
                        level |-> "INFO",
                        service |-> "sample-app",
                        logger |-> "gunicorn",
                        message |-> "Gunicorn server starting",
                        workers |-> workers,
                        bind |-> "0.0.0.0:8080"]
       IN /\ printed' = [printed EXCEPT ![MainThread] = log_data]
          /\ StreamWrite("gunicorn", MainThread, log_data)
    /\ UNCHANGED <<environ, resource, path, ua, pc, ip, g, rnd, exc, context, frames, spans,
                   logs, response, elapsed, applog,
                   collector, export_result, log_queue, span_queue>>

(***************************************************************************)
(* Request lifecycle                                                       *)
(***************************************************************************)
\* request.headers.get("User-Agent", "unknown")
header_get(value, default) == IF value = None THEN default ELSE value

\* A request arrives in slot r: FlaskInstrumentor starts the request's
\* root span, for which the generator drew tid and sid, and makes it current.
request_start_with(r, p, agent, tid, sid) ==
    /\ r \in Serving(server)
    /\ pc[r] \in {"idle", "done"}
    /\ ~wr[r]
    /\ LET root == [NewSpan(r, p, INVALID_SPAN_CONTEXT, NoFields)
                        EXCEPT !.trace_id = tid, !.span_id = sid, !.start = 1]
       IN /\ spans' = [spans EXCEPT ![r] = <<root>>]
          /\ frames' = [frames EXCEPT ![r] =
                            <<[span_id |-> root.span_id, token |-> context[ContextKey(r)]]>>]
          /\ context' = [context EXCEPT ![ContextKey(r)] = SpanContext(root)]
    /\ path' = [path EXCEPT ![r] = p]
    /\ ua' = [ua EXCEPT ![r] = agent]
    /\ pc' = [pc EXCEPT ![r] = "before_request"]
    /\ ip' = [ip EXCEPT ![r] = 0]
    /\ g' = [g EXCEPT ![r] = NoG]
    /\ rnd' = [rnd EXCEPT ![r] = NoRnd]
    /\ exc' = [exc EXCEPT ![r] = NoExc]
    /\ logs' = [logs EXCEPT ![r] = <<>>]
    /\ response' = [response EXCEPT ![r] = NoResponse]
    /\ elapsed' = [elapsed EXCEPT ![r] = 0]
    /\ printed' = [printed EXCEPT ![r] = NoFields]
    /\ UNCHANGED <<server, environ, resource, stdout, wr, applog,
                   collector, export_result, log_queue, span_queue>>

request_start(r, p, agent) ==
    request_start_with(r, p, agent, generate_trace_id(r), generate_span_id(r, 1))

before_request(r, rid) ==
    /\ pc[r] = "before_request"
    /\ ~wr[r]
    /\ g' = [g EXCEPT ![r] = [request_id |-> rid, start_time |-> elapsed[r]]]
    /\ spans' = WithAttrs(spans, get_current_span(r),
                          ("http.request_id" :> rid) @@ ("http.method" :> "GET")
                          @@ ("http.route" :> path[r])
                          @@ ("http.user_agent" :> header_get(ua[r], "unknown")))
    /\ emit(r, "INFO", "Request received",
            [event |-> "request_start", request_id |-> rid, method |-> "GET",
             path |-> path[r], remote_addr |-> "10.0.0.7",
             user_agent |-> header_get(ua[r], "unknown")])
    /\ pc' = [pc EXCEPT ![r] = "handler"]
    /\ ip' = [ip EXCEPT ![r] = 1]
    /\ UNCHANGED <<server, environ, resource, path, ua, rnd, exc, context, frames, response,
                   elapsed, applog, printed,
                   collector, export_result, span_queue>>

after_request(r) ==
    /\ pc[r] = "after_request"
    /\ ~wr[r]
    /\ LET duration == elapsed[r] - flask_g(r).start_time
       IN /\ spans' = WithAttrs(spans, get_current_span(r),
                                ("http.status_code" :> response[r].status)
                                @@ ("http.response_time_ms" :> round_ms2(duration)))
          /\ emit(r, "INFO", "Request completed",
                  [event |-> "request_end", request_id |-> flask_g(r).request_id,
                   method |-> "GET", path |-> path[r],
                   status_code |-> response[r].status,
                   duration_ms |-> round_ms2(duration)])
    /\ pc' = [pc EXCEPT ![r] = "teardown"]
    /\ UNCHANGED <<server, environ, resource, path, ua, ip, g, rnd, exc, context, frames,
                   response, elapsed, applog, printed,
                   collector, export_result, span_queue>>

\* Without the frame at position i.
Without(fr, i) == SubSeq(fr, 1, i - 1) \o SubSeq(fr, i + 1, Len(fr))

\* FlaskInstrumentor's teardown: the root span stops being current and ends.
teardown_request(r) ==
    /\ pc[r] = "teardown"
    /\ ~wr[r]
    /\ context' = [context EXCEPT ![ContextKey(r)] = frames[r][1].token]
    /\ spans' = [spans EXCEPT ![r] = EndSpan(@, frames[r][1].span_id)]
    /\ frames' = [frames EXCEPT ![r] = Without(@, 1)]
    /\ on_end(1)
    /\ pc' = [pc EXCEPT ![r] = IF server = "gunicorn" THEN "post_request" ELSE "done"]
    /\ UNCHANGED <<server, environ, resource, path, ua, ip, g, rnd, exc, logs, response,
                   elapsed, stdout, wr, applog, printed,
                   collector, export_result, log_queue>>

\* resp.status.split()[0] of the status line of a response.
status_word(status) == IF status = 500 THEN "500" ELSE "200"
\* int(status_code)
int_status(word) == IF word = "500" THEN 500 ELSE 200

\* gunicorn's post_request hook in the worker that served the request.
post_request(r) ==
    /\ pc[r] = "post_request"
    /\ ~wr[r]
    /\ LET status_code == status_word(response[r].status)
           log_data == [timestamp |-> utcfromtimestamp_isoformat(Epoch) \o "Z",
                        level |-> "INFO",
                        service |-> "sample-app",
                        logger |-> "gunicorn.access",
                        message |-> "GET " \o path[r] \o " " \o status_code,
                        http |-> [method |-> "GET", path |-> path[r],
                                  status_code |-> int_status(status_code),
                                  user_agent |-> header_get(ua[r], "-")],
                        network |-> [client_ip |-> "10.0.0.7"]]
       IN /\ printed' = [printed EXCEPT ![r] = log_data]
          /\ StreamWrite(server, r, log_data)
    /\ pc' = [pc EXCEPT ![r] = "done"]
    /\ UNCHANGED <<server, environ, resource, path, ua, ip, g, rnd, exc, context, frames, spans,
                   logs, response, elapsed, applog,
                   collector, export_result, log_queue, span_queue>>

(***************************************************************************)
(* Handler instructions                                                    *)
(***************************************************************************)
\* with tracer.start_as_current_span(name): the new span is a child of the
\* current one and becomes current.
start_as_current_span(r) ==
    /\ AtOp(r, "open")
    /\ LET s == NewSpan(r, Instr(r).name, get_current_span(r), Instr(r).attrs)
       IN /\ spans' = [spans EXCEPT ![r] = Append(@, s)]
          /\ frames' = [frames EXCEPT ![r] =
                            Append(@, [span_id |-> s.span_id,
                                       token |-> context[ContextKey(r)]])]
          /\ context' = [context EXCEPT ![ContextKey(r)] = SpanContext(s)]
    /\ Advance(r)
    /\ UNCHANGED <<server, environ, resource, path, ua, g, rnd, exc, logs, response, elapsed,
                   stdout, wr, applog, printed,
                   collector, export_result, log_queue, span_queue>>

\* The enclosing block left before the innermost one.
ClosingFrame_outer(fr) == IF Len(fr) > 2 THEN Len(fr) - 1 ELSE Len(fr)

\* The with-block a block exit leaves: the innermost one.
ClosingFrame(fr) == Len(fr)

\* The end of a with-block: the context is reset to the block's token and
\* the block's span ends.
span_exit(r) ==
    /\ AtOp(r, "close")
    /\ LET i == ClosingFrame(frames[r])
       IN /\ context' = [context EXCEPT ![ContextKey(r)] = frames[r][i].token]
          /\ spans' = [spans EXCEPT ![r] = EndSpan(@, frames[r][i].span_id)]
          /\ frames' = [frames EXCEPT ![r] = Without(@, i)]
          /\ on_end(1)
    /\ Advance(r)
    /\ UNCHANGED <<server, environ, resource, path, ua, g, rnd, exc, logs, response, elapsed,
                   stdout, wr, applog, printed,
                   collector, export_result, log_queue>>

logger_log(r) ==
    /\ AtOp(r, "log")
    /\ emit(r, Instr(r).level, Instr(r).msg, Instr(r).extra)
    /\ Advance(r)
    /\ UNCHANGED <<server, environ, resource, path, ua, g, rnd, exc, context, frames, spans,
                   response, elapsed, applog, printed,
                   collector, export_result, span_queue>>

\* time.sleep(d): the call returns after d or later.  With full ranges d
\* is any value of the instruction's range, otherwise its lower end.
time_sleep(r, full, overshoots) ==
    /\ AtOp(r, "sleep")
    /\ \E d \in (IF full THEN Instr(r).lo..Instr(r).hi ELSE {Instr(r).lo}) :
         \E o \in overshoots :
            elapsed' = [elapsed EXCEPT ![r] = @ + d + o]
    /\ Advance(r)
    /\ UNCHANGED <<server, environ, resource, path, ua, g, rnd, exc, context, frames, spans,
                   logs, response, stdout, wr, applog, printed,
                   collector, export_result, log_queue, span_queue>>

\* The spans after span.set_attribute(...) on the request's span called name.
WithAttrsNamed(sp, name, attrs) ==
    [i \in 1..Len(sp) |->
        IF sp[i].name = name THEN [sp[i] EXCEPT !.attrs = attrs @@ @] ELSE sp[i]]

\* delay = random.uniform(0.5, 2.0)
random_uniform(r, delays) ==
    /\ AtOp(r, "uniform")
    /\ \E d \in delays :
         \E c \in round2(d) :
            /\ rnd' = [rnd EXCEPT ![r] = [@ EXCEPT !.delay = d, !.delay_r2 = c]]
            /\ spans' = [spans EXCEPT ![r] =
                            WithAttrsNamed(@, "slow-operation",
                                           "delay.target_seconds" :> c)]
    /\ Advance(r)
    /\ UNCHANGED <<server, environ, resource, path, ua, g, exc, context, frames, logs,
                   response, elapsed, stdout, wr, applog, printed,
                   collector, export_result, log_queue, span_queue>>

\* error_type = random.choice(["ValueError", "RuntimeError", "KeyError"])
random_choice(r) ==
    /\ AtOp(r, "choice")
    /\ \E t \in ErrorTypes :
         /\ rnd' = [rnd EXCEPT ![r] = [@ EXCEPT !.error_type = t]]
         /\ spans' = [spans EXCEPT ![r] =
                         WithAttrsNamed(@, "error-operation", "error.type" :> t)]
    /\ Advance(r)
    /\ UNCHANGED <<server, environ, resource, path, ua, g, exc, context, frames, logs,
                   response, elapsed, stdout, wr, applog, printed,
                   collector, export_result, log_queue, span_queue>>

raise_error(r) ==
    /\ AtOp(r, "raise")
    /\ LET class == RaisedClass(rnd[r].error_type)
       IN exc' = [exc EXCEPT ![r] = [type |-> class, msg |-> ErrorMessage(class),
                                     state |-> "raised"]]
    /\ Advance(r)
    /\ UNCHANGED <<server, environ, resource, path, ua, g, rnd, context, frames, spans, logs,
                   response, elapsed, stdout, wr, applog, printed,
                   collector, export_result, log_queue, span_queue>>

\* span.record_exception(e); span.set_status(Status(ERROR, str(e)))
RecordError(sp, name, e) ==
    [i \in 1..Len(sp) |->
        IF sp[i].name = name
        THEN [sp[i] EXCEPT !.exceptions = Append(@, e.type),
                           !.status = "ERROR: " \o str_exc(e)]
        ELSE sp[i]]

\* The spans after an exception leaves every with-block of the handler.
Unwound(sp, fr) ==
    [i \in 1..Len(sp) |->
        IF \E k \in 2..Len(fr) : fr[k].span_id = sp[i].span_id
        THEN [sp[i] EXCEPT !.ends = @ + 1, !.end = NextSeq(sp), !.status = "ERROR"]
        ELSE sp[i]]

\* except Exception as e: the clause takes the exception; an exception no
\* clause takes leaves the handler and Flask answers 500 with its own page.
except_handler(r) ==
    /\ AtOp(r, "except")
    /\ IF "Exception" \in Instr(r).classes \/ exc[r].type \in Instr(r).classes
       THEN /\ exc' = [exc EXCEPT ![r].state = "caught"]
            /\ spans' = [spans EXCEPT ![r] = RecordError(@, "error-operation", exc[r])]
            /\ Advance(r)
            /\ UNCHANGED <<context, frames, response, span_queue>>
       ELSE /\ exc' = [exc EXCEPT ![r].state = "escaped"]
            /\ spans' = [spans EXCEPT ![r] = Unwound(@, frames[r])]
            /\ context' = [context EXCEPT ![ContextKey(r)] = frames[r][2].token]
            /\ frames' = [frames EXCEPT ![r] = SubSeq(@, 1, 1)]
            /\ on_end(Len(frames[r]) - 1)
            /\ response' = [response EXCEPT ![r] =
                               [status |-> 500, body |-> [html |-> "Internal Server Error"]]]
            /\ pc' = [pc EXCEPT ![r] = "after_request"]
            /\ ip' = [ip EXCEPT ![r] = 0]
    /\ UNCHANGED <<server, environ, resource, path, ua, g, rnd, logs, elapsed, stdout, wr,
                   applog, printed,
                   collector, export_result, log_queue>>

\* return jsonify(body), status: the value exists before the block exits.
handler_return(r) ==
    /\ AtOp(r, "return")
    /\ response' = [response EXCEPT ![r] = [status |-> Instr(r).status,
                                            body |-> Instr(r).body]]
    /\ Advance(r)
    /\ UNCHANGED <<server, environ, resource, path, ua, g, rnd, exc, context, frames, spans,
                   logs, elapsed, stdout, wr, applog, printed,
                   collector, export_result, log_queue, span_queue>>

\* A logger call made outside any request, with any level and fields.
logger_call(level, msg, extra) ==
    /\ server = "none"
    /\ Len(applog) < MaxAppLog
    /\ LET record == LogRecord(LoggerName("flask"), level, msg, extra, Epoch)
           line == add_fields(record, get_current_span(MainThread), environ)
       IN /\ applog' = Append(applog, Entry(record, line, INVALID_SPAN_CONTEXT))
          /\ handle("flask", MainThread, record, line)
    /\ UNCHANGED <<server, environ, resource, path, ua, pc, ip, g, rnd, exc, context, frames,
                   spans, logs, response, elapsed, printed,
                   collector, export_result, span_queue>>

\* os.environ[name] = value, or del os.environ[name], after startup.
putenv(name, value) ==
    /\ server # "none"
    /\ environ[name] # value
    /\ environ' = [environ EXCEPT ![name] = value]
    /\ UNCHANGED <<server, resource, path, ua, pc, ip, g, rnd, exc, context, frames,
                   spans, logs, response, elapsed, stdout, wr, applog, printed,
                   collector, span_queue, log_queue, export_result>>

\* The collector becomes healthy, slow or unreachable.
collector_change(c) ==
    /\ collector # c
    /\ collector' = c
    /\ UNCHANGED <<server, environ, resource, path, ua, pc, ip, g, rnd, exc, context,
                   frames, spans, logs, response, elapsed, stdout, wr, applog, printed,
                   span_queue, log_queue, export_result>>

\* The background sender of a batch processor takes what is queued and
\* exports it: a healthy collector takes the batch, an unreachable one
\* makes the export fail and the batch is lost; with a slow collector the
\* sender is still waiting in its export call.
export_spans ==
    /\ server # "none"
    /\ span_queue > 0
    /\ collector # "slow"
    /\ span_queue' = 0
    /\ export_result' = IF collector = "healthy" THEN "SUCCESS" ELSE "FAILURE"
    /\ UNCHANGED <<server, environ, resource, path, ua, pc, ip, g, rnd, exc, context,
                   frames, spans, logs, response, elapsed, stdout, wr, applog, printed,
                   collector, log_queue>>

export_logs ==
    /\ server # "none"
    /\ log_queue > 0
    /\ collector # "slow"
    /\ log_queue' = 0
    /\ export_result' = IF collector = "healthy" THEN "SUCCESS" ELSE "FAILURE"
    /\ UNCHANGED <<server, environ, resource, path, ua, pc, ip, g, rnd, exc, context,
                   frames, spans, logs, response, elapsed, stdout, wr, applog, printed,
                   collector, span_queue>>

(***************************************************************************)
(* Specifications                                                          *)
(***************************************************************************)
\* python main.py: requests to every endpoint in every thread.
Next ==
    \/ main
    \/ \E r \in Slots :
         \/ \E p \in Paths : request_start(r, p, ShortUserAgent)
         \/ \E rid \in RequestIds : before_request(r, rid)
         \/ start_as_current_span(r)
         \/ logger_log(r)
         \/ time_sleep(r, FALSE, {0})
         \/ random_uniform(r, SlowDelaysCoarse)
         \/ random_choice(r)
         \/ raise_error(r)
         \/ except_handler(r)
         \/ handler_return(r)
         \/ span_exit(r)
         \/ after_request(r)
         \/ teardown_request(r)

Spec == Init /\ [][Next]_vars

\* gunicorn with its workers: requests with short and with long headers to
\* the endpoints that neither sleep nor fail.
QuickPaths == {"/", "/api", "/health"}

NextGunicorn ==
    \/ on_starting
    \/ \E r \in Slots :
         \/ \E p \in QuickPaths : \E a \in UserAgents : request_start(r, p, a)
         \/ \E rid \in RequestIds : before_request(r, rid)
         \/ start_as_current_span(r)
         \/ logger_log(r)
         \/ handler_return(r)
         \/ span_exit(r)
         \/ after_request(r)
         \/ teardown_request(r)
         \/ post_request(r)
         \/ write_rest(r)

SpecGunicorn == Init /\ [][NextGunicorn]_vars

\* One thread serving /api/slow, with every delay and oversleeping.
NextTime ==
    \/ main
    \/ request_start(1, "/api/slow", ShortUserAgent)
    \/ \E rid \in RequestIds : before_request(1, rid)
    \/ start_as_current_span(1)
    \/ logger_log(1)
    \/ time_sleep(1, TRUE, 0..MaxOvershoot)
    \/ random_uniform(1, SlowDelaysFine)
    \/ handler_return(1)
    \/ span_exit(1)
    \/ after_request(1)
    \/ teardown_request(1)

SpecTime == Init /\ [][NextTime]_vars

\* The formatter on logger calls with any level and any caller fields.
Levels == {"DEBUG", "INFO", "WARNING", "ERROR"}
FormatterKeys == {"service", "environment", "level", "logger", "timestamp"}
CallerValue == "set-by-caller"
Extras == {[k \in S \cup {"action"} |-> CallerValue] : S \in SUBSET FormatterKeys}

NextFormat ==
    \E level \in Levels : \E extra \in Extras : logger_call(level, "event", extra)

SpecFormat == Init /\ [][NextFormat]_vars

\* Started with any environment, which changes while one thread serves /api.
NextEnv ==
    \/ main
    \/ \E name \in EnvVars : \E value \in EnvValues : putenv(name, value)
    \/ request_start(1, "/api", ShortUserAgent)
    \/ \E rid \in RequestIds : before_request(1, rid)
    \/ start_as_current_span(1)
    \/ logger_log(1)
    \/ handler_return(1)
    \/ span_exit(1)
    \/ after_request(1)
    \/ teardown_request(1)

SpecEnv == InitEnv /\ [][NextEnv]_vars

\* The steps the thread of slot r takes for the request it serves.
Serve(r) ==
    \/ \E rid \in RequestIds : before_request(r, rid)
    \/ start_as_current_span(r)
    \/ logger_log(r)
    \/ time_sleep(r, FALSE, {0})
    \/ random_choice(r)
    \/ raise_error(r)
    \/ except_handler(r)
    \/ handler_return(r)
    \/ span_exit(r)
    \/ after_request(r)
    \/ teardown_request(r)

CollectorStates == {"healthy", "slow", "unreachable"}
ExportPaths == {"/api/users", "/error"}

\* One thread serving requests while the collector changes at will and the
\* background senders export when they can.
NextExport ==
    \/ main
    \/ \E c \in CollectorStates : collector_change(c)
    \/ export_spans
    \/ export_logs
    \/ \E p \in ExportPaths : request_start(1, p, ShortUserAgent)
    \/ Serve(1)

\* The serving thread is scheduled; nothing is assumed of the collector or
\* of the senders.
SpecExport == Init /\ [][NextExport]_vars /\ WF_vars(Serve(1))

\* One thread serving /api with any identifiers drawn for the root span.
NextHex ==
    \/ main
    \/ \E tid \in TraceIdSamples : \E sid \in SpanIdSamples :
         request_start_with(1, "/api", ShortUserAgent, tid, sid)
    \/ \E rid \in RequestIds : before_request(1, rid)
    \/ start_as_current_span(1)
    \/ logger_log(1)
    \/ handler_return(1)
    \/ span_exit(1)
    \/ after_request(1)
    \/ teardown_request(1)

SpecHex == Init /\ [][NextHex]_vars

(***************************************************************************)
(* Properties                                                              *)
(***************************************************************************)
Entries(r) == {logs[r][i] : i \in 1..Len(logs[r])}
AppEntries == {applog[i] : i \in 1..Len(applog)}
AllEntries == AppEntries \cup UNION {Entries(r) : r \in Slots}

Responded(r) == pc[r] \in {"after_request", "teardown", "post_request", "done"}

SpansNamed(r, name) == {i \in 1..Len(spans[r]) : spans[r][i].name = name}

\* C1: the request_id of the response body, when it has one, is the
\* http.request_id attribute of the request's root span and the request_id
\* field of every record logged during the request.
C1_RequestIdAgrees ==
    \A r \in Slots :
        pc[r] \notin {"idle", "before_request"} =>
            /\ "http.request_id" \in DOMAIN spans[r][1].attrs
            /\ \A e \in Entries(r) :
                   /\ "request_id" \in DOMAIN e.line
                   /\ e.line.request_id = spans[r][1].attrs["http.request_id"]
            /\ "request_id" \in DOMAIN response[r].body =>
                   response[r].body.request_id = spans[r][1].attrs["http.request_id"]

\* Two requests with different identifiers: one answered with its identifier
\* in the body, the other in its handler with records logged.
C1_Witness ==
    /\ pc[1] = "done"
    /\ "request_id" \in DOMAIN response[1].body
    /\ Len(logs[1]) = 7
    /\ pc[2] = "handler"
    /\ Len(logs[2]) >= 2
    /\ g[2].request_id # g[1].request_id

\* C2: the current-span lookup made for a request returns the innermost
\* span that request started and has not ended, and a step of one request
\* leaves what every other request sees as current unchanged.
C2_LookupIsOwn ==
    \A r \in Slots : get_current_span(r) = InnermostOpen(r)

C2_OthersUntouched ==
    \A r \in Slots :
        (pc'[r] = pc[r] /\ ip'[r] = ip[r] /\ logs'[r] = logs[r])
            => context'[ContextKey(r)] = context[ContextKey(r)]

C2_RequestScopedContext == []C2_LookupIsOwn /\ [][C2_OthersUntouched]_vars

\* Two requests in flight, each inside a nested span of its own.
C2_Witness ==
    /\ pc[1] = "handler" /\ Len(frames[1]) = 3
    /\ pc[2] = "handler" /\ Len(frames[2]) = 3
    /\ get_current_span(1) # get_current_span(2)
    /\ get_current_span(1).span_id = spans[1][3].span_id

\* C3: a rendered record has trace_id and span_id exactly when the emitting
\* request has a span open, and then they are the identifiers of the
\* innermost open span; a record emitted outside any span has neither.
C3_CorrelationIsInnermost ==
    \A e \in AllEntries :
        /\ "trace_id" \in DOMAIN e.line <=> is_valid(e.at)
        /\ "span_id" \in DOMAIN e.line <=> is_valid(e.at)
        /\ is_valid(e.at) =>
               /\ e.line.trace_id = format_x(e.at.trace_id, 32)
               /\ e.line.span_id = format_x(e.at.span_id, 16)

\* The startup record without the fields, and a record logged inside
\* 'db-query' with the identifier of that span, which is not the root's.
C3_Witness ==
    /\ \E e \in AppEntries :
           e.line.message = "Application starting" /\ "trace_id" \notin DOMAIN e.line
    /\ \E r \in Slots : \E e \in Entries(r) : \E i \in SpansNamed(r, "db-query") :
           /\ e.line.message = "Database query executed"
           /\ e.line.span_id = format_x(spans[r][i].span_id, 16)
           /\ e.line.span_id # format_x(spans[r][1].span_id, 16)
           /\ e.line.trace_id = format_x(spans[r][1].trace_id, 32)

\* C4: span lifetimes are strictly nested: a span is started while its
\* parent is open, a span started while another span of the request is open
\* has ended before that one ends, and phase spans with the same parent
\* never overlap.
C4_StrictLifo ==
    \A r \in Slots : \A i, j \in 1..Len(spans[r]) :
        LET a == spans[r][i]
            b == spans[r][j]
        IN /\ b.parent_id = a.span_id =>
                  (a.start < b.start /\ (a.ends > 0 => b.start < a.end))
           /\ (a.start < b.start /\ a.ends > 0 /\ b.start < a.end) =>
                  (b.ends > 0 /\ b.end < a.end)
           /\ (a.start < b.start /\ a.parent_id = b.parent_id) =>
                  (a.ends > 0 /\ a.end < b.start)

\* A finished /api/users request: three phase spans inside the handler span
\* inside the root span; and a finished /api/slow request.
C4_Witness ==
    /\ pc[1] = "done" /\ path[1] = "/api/users" /\ Len(spans[1]) = 5
    /\ \A i \in 3..5 : spans[1][i].parent_id = spans[1][2].span_id /\ spans[1][i].ends = 1
    /\ spans[1][3].end < spans[1][4].start /\ spans[1][5].end < spans[1][2].end
    /\ pc[2] = "done" /\ path[2] = "/api/slow" /\ Len(spans[2]) = 5

\* C5: when a request has finished, every span it started has ended exactly
\* once; no span ever ends twice; in /error 'pre-error-work' has ended when
\* the exception is raised, and 'error-operation' ends only after the 500
\* response value exists.
C5_EverySpanClosedOnce ==
    \A r \in Slots :
        /\ \A i \in 1..Len(spans[r]) : spans[r][i].ends <= 1
        /\ pc[r] = "done" => \A i \in 1..Len(spans[r]) : spans[r][i].ends = 1
        /\ pc[r] = "done" => frames[r] = <<>>
        /\ exc[r].state # "none" =>
               /\ SpansNamed(r, "pre-error-work") # {}
               /\ \A i \in SpansNamed(r, "pre-error-work") : spans[r][i].ends = 1
        /\ exc[r].state = "raised" =>
               \A i \in SpansNamed(r, "error-operation") : spans[r][i].ends = 0
        /\ \A i \in SpansNamed(r, "error-operation") :
               spans[r][i].ends > 0 => response[r].status = 500

\* A finished /error request with its three spans ended, next to a finished
\* request of the normal path.
C5_Witness ==
    /\ pc[1] = "done" /\ path[1] = "/error" /\ exc[1].state = "caught"
    /\ Len(spans[1]) = 3 /\ \A i \in 1..3 : spans[1][i].ends = 1
    /\ pc[2] = "done" /\ path[2] = "/health" /\ Len(spans[2]) = 2

\* C6: every /error request answers 500 with a non-empty error and an
\* error_type among the three, whatever was chosen; the exception is taken
\* inside the handler, and the slot serves again afterwards.
C6_ErrorAnswers500 ==
    \A r \in Slots :
        /\ exc[r].state # "escaped"
        /\ (path[r] = "/error" /\ Responded(r)) =>
               /\ response[r].status = 500
               /\ "error" \in DOMAIN response[r].body
               /\ response[r].body.error # ""
               /\ "error_type" \in DOMAIN response[r].body
               /\ response[r].body.error_type \in ErrorTypes
               /\ response[r].body.error_type = rnd[r].error_type
               /\ exc[r].state = "caught"
        /\ (path[r] = "/error" /\ pc[r] = "done") => (r \in Serving(server) /\ ~wr[r])

\* Two finished /error requests that drew different errors, one a KeyError.
C6_Witness ==
    /\ pc[1] = "done" /\ path[1] = "/error" /\ response[1].body.error_type = "KeyError"
    /\ response[1].body.error = "'Simulated key error - missing configuration'"
    /\ pc[2] = "done" /\ path[2] = "/error" /\ response[2].body.error_type = "RuntimeError"

\* C7: /health answers 200 with status 'healthy' whatever the other slots
\* do and whatever was served before.
C7_HealthAlwaysHealthy ==
    \A r \in Slots :
        (path[r] = "/health" /\ Responded(r)) =>
            /\ response[r].status = 200
            /\ response[r].body.status = "healthy"

\* /health answered while another slot has answered /error with 500, and
\* while another slot is in the middle of /error with the exception raised.
C7_Witness ==
    /\ pc[1] = "done" /\ path[1] = "/health" /\ response[1].status = 200
    /\ path[2] = "/error" /\ exc[2].state = "raised"

\* The answered /api/slow requests.
SlowDone(r) == path[r] = "/api/slow" /\ pc[r] = "done"

\* The delay_seconds of the response is in hundredths of a second, elapsed
\* time in thirds of a millisecond: one hundredth of a second is 30 thirds.
\* C8 as stated: delay_seconds lies between 0.5 and 2.0 and the time the
\* call takes is at least delay_seconds.
C8_TakesAtLeastReported ==
    \A r \in Slots :
        SlowDone(r) =>
            /\ response[r].body.delay_seconds \in 50..200
            /\ elapsed[r] >= 30 * response[r].body.delay_seconds

\* C8 amended: delay_seconds lies between 0.5 and 2.0 and is the drawn delay
\* rounded to two decimals; the call takes at least the drawn delay, which
\* is at least delay_seconds minus 0.005 s.
C8_TakesAtLeastDrawn ==
    \A r \in Slots :
        SlowDone(r) =>
            /\ response[r].body.delay_seconds \in 50..200
            /\ response[r].body.delay_seconds \in round2(rnd[r].delay)
            /\ elapsed[r] >= 3 * rnd[r].delay
            /\ elapsed[r] >= 30 * response[r].body.delay_seconds - 15

\* An answered request whose delay of 0.507 s was reported as 0.51 s and
\* that took less than 0.51 s.
C8_Witness ==
    /\ SlowDone(1)
    /\ rnd[1].delay = 507
    /\ response[1].body.delay_seconds = 51
    /\ elapsed[1] < 30 * 51
    /\ Len(spans[1]) = 5

\* A line of standard output is one record: one whole write, or the head
\* and the tail of the same writer's line with nothing in between.
LineIsOneRecord(l) ==
    \/ Len(l) = 1 /\ l[1].part = "whole"
    \/ Len(l) = 2 /\ l[1].part = "head" /\ l[2].part = "tail" /\ l[1].of = l[2].of

\* C9: every line on standard output is one complete record, whichever
\* worker wrote it and whether the logging handler or print() wrote it.
C9_EveryLineIsOneRecord ==
    stdout.last # <<>> => LineIsOneRecord(stdout.last)

\* C10 as stated: where a caller-supplied field has the key of a field the
\* formatter sets, the emitted value is the caller's.
C10_CallerWins ==
    \A e \in AllEntries :
        \A k \in DOMAIN e.record.extra \cap FormatterKeys :
            e.line[k] = e.record.extra[k]

\* C10 amended: the caller-supplied fields are laid over the record's
\* fields first and the formatter's fields are set last: service,
\* environment, level, logger and timestamp always have the formatter's
\* values, also where the caller supplied a field with that key; every other
\* caller-supplied field is emitted with the caller's value.
C10_FormatterWins ==
    \A e \in AllEntries :
        /\ e.line.service = "sample-app"
        /\ e.line.environment = getenv(environ, "OTEL_ENVIRONMENT", "demo")
        /\ e.line.level = e.record.levelname
        /\ e.line.logger = e.record.name
        /\ e.line.timestamp = utcfromtimestamp_isoformat(e.record.created) \o "Z"
        /\ e.line.message = e.record.msg
        /\ \A k \in DOMAIN e.record.extra \ (FormatterKeys \cup {"trace_id", "span_id"}) :
               e.line[k] = e.record.extra[k]

\* A call that supplied level and service of its own and was emitted with
\* the formatter's.
C10_Witness ==
    \E e \in AppEntries :
        /\ {"level", "service"} \subseteq DOMAIN e.record.extra
        /\ e.record.extra.level = CallerValue
        /\ e.line.level = "WARNING"
        /\ e.line.service = "sample-app"
        /\ e.line.action = CallerValue

\* C11: the service and environment of every emitted record are the
\* service.name and deployment.environment of the Resource built at process
\* start, which is the Resource of every span, whatever the four variables
\* were at startup and however they change afterwards.
C11_RecordsCarryResource ==
    /\ \A r \in Slots : \A i \in 1..Len(spans[r]) : spans[r][i].resource = resource
    /\ \A e \in AllEntries :
           /\ e.line.service = resource["service.name"]
           /\ e.line.environment = resource["deployment.environment"]

\* The positions of the records of the request with message msg.
Logged(r, msg) == {i \in 1..Len(logs[r]) : logs[r][i].record.msg = msg}

\* C12: every request is bracketed by the two hooks.  'Request received' is
\* logged exactly once, with the root span open and current, before the
\* handler has opened a span or logged; 'Request completed' is logged
\* exactly once, with the response's status code and the time between the
\* entry and the exit hook, when every handler span has ended and the root
\* span has not; on every endpoint, /error included.
C12_HooksBracketRequest ==
    \A r \in Slots :
        LET root == spans[r][1]
            last == logs[r][Len(logs[r])]
        IN /\ pc[r] = "before_request" =>
                  /\ logs[r] = <<>>
                  /\ Len(spans[r]) = 1 /\ root.ends = 0
           /\ pc[r] \in {"handler", "after_request", "teardown", "post_request", "done"} =>
                  /\ Logged(r, "Request received") = {1}
                  /\ logs[r][1].at = SpanContext(root)
           /\ pc[r] \in {"before_request", "handler", "after_request"} =>
                  Logged(r, "Request completed") = {}
           /\ pc[r] = "after_request" =>
                  /\ root.ends = 0
                  /\ \A i \in 2..Len(spans[r]) : spans[r][i].ends = 1
                  /\ response[r].status \in {200, 500}
           /\ pc[r] \in {"teardown", "post_request", "done"} =>
                  /\ Logged(r, "Request completed") = {Len(logs[r])}
                  /\ last.at = SpanContext(root)
                  /\ \A i \in 2..Len(spans[r]) : spans[r][i].ends = 1
                  /\ last.line.status_code = response[r].status
                  /\ last.line.duration_ms = round_ms2(elapsed[r] - g[r].start_time)
                  /\ root.attrs["http.status_code"] = response[r].status
           /\ pc[r] = "teardown" => root.ends = 0
           /\ pc[r] = "done" => root.ends = 1 /\ root.end = 2 * Len(spans[r])

\* A finished /error request bracketed by the two records, the second with
\* status 500, next to a finished /api/users request whose 'Request
\* completed' carries 200 and the time its three sleeps took.
C12_Witness ==
    /\ pc[1] = "done" /\ path[1] = "/error"
    /\ logs[1][1].record.msg = "Request received"
    /\ logs[1][Len(logs[1])].record.msg = "Request completed"
    /\ logs[1][Len(logs[1])].line.status_code = 500
    /\ Len(logs[1]) > 2
    /\ pc[2] = "done" /\ path[2] = "/api/users"
    /\ logs[2][Len(logs[2])].line.status_code = 200
    /\ logs[2][Len(logs[2])].line.duration_ms = round_ms2(3 * (2 + 10 + 1))

\* The requests that have arrived and are not finished.
InFlight(r) == pc[r] \in {"before_request", "handler", "after_request", "teardown"}

\* The response the handler's return statement gives.
Returned(r) ==
    LET ret == Program(r)[CHOOSE i \in 1..Len(Program(r)) : Program(r)[i].op = "return"]
    IN [status |-> ret.status, body |-> ret.body]

C13_NoStepWaits == InFlight(1) => ENABLED Serve(1)

C13_ResponseOfHandler == Responded(1) => response[1] = Returned(1)

\* C13: no log emission and no span end of a request waits for the export
\* or fails because of it: whatever the collector does, for however long,
\* the next step of a request in flight can be taken, every request that
\* has arrived finishes, and its response is the one the handler returns.
C13_ExportNeverStallsRequest ==
    /\ [](C13_NoStepWaits /\ C13_ResponseOfHandler)
    /\ (pc[1] = "before_request" ~> pc[1] = "done")

\* A finished /error request answered 500 while the collector is
\* unreachable, the last export failed and the record queue is full.
C13_Witness ==
    /\ pc[1] = "done" /\ path[1] = "/error" /\ response[1].status = 500
    /\ collector = "unreachable"
    /\ export_result = "FAILURE"
    /\ log_queue = MaxQueue
    /\ span_queue > 0

LowerHex == {HexDigits[i] : i \in 1..16}

\* s is exactly width lower-case hexadecimal characters, not all of them 0.
IsHexOfWidth(s, width) ==
    /\ Len(s) = width
    /\ \A i \in 1..Len(s) : s[i] \in LowerHex
    /\ \E i \in 1..Len(s) : s[i] # "0"

\* C14: on every record emitted while a span with a valid context is
\* current, trace_id is exactly 32 lower-case hexadecimal characters and
\* span_id exactly 16, zero-padded, for every trace identifier below 2^128
\* and span identifier below 2^64, and neither is all zeros.
C14_HexWidths ==
    \A e \in AllEntries :
        (is_valid(e.at) /\ Len(e.at.trace_id) <= 8 /\ Len(e.at.span_id) <= 4) =>
            /\ IsHexOfWidth(e.line.trace_id, 32)
            /\ IsHexOfWidth(e.line.span_id, 16)

\* A request whose records carry the largest trace identifier in full and
\* the span identifier 1 padded with fifteen zeros, and show the handler's
\* own span identifier on the handler's record.
C14_Witness ==
    /\ pc[1] = "done" /\ Len(logs[1]) = 3
    /\ logs[1][1].line.trace_id = [i \in 1..32 |-> "f"]
    /\ logs[1][1].line.span_id = [i \in 1..16 |-> IF i = 16 THEN "1" ELSE "0"]
    /\ logs[1][2].line.span_id = [i \in 1..16 |-> IF i = 15 THEN "1"
                                                   ELSE IF i = 16 THEN "2" ELSE "0"]
    /\ logs[1][2].line.trace_id = logs[1][1].line.trace_id

\* The handlers among hs that are called name.
Times(hs, name) == Cardinality({i \in 1..Len(hs) : hs[i] = name})

\* The lines the gunicorn hooks have put on standard output.
PrintedLines == {printed[k] : k \in {c \in Contexts : printed[c] # NoFields}}

\* C15: what puts a line on standard output is handed to the remote log
\* pipeline exactly once, and what is handed to the remote pipeline is on
\* standard output as one line: the application's records of every level,
\* and the lines the gunicorn hooks post_request and on_starting write.
C15_StdoutMirroredRemotely ==
    /\ \A e \in AllEntries :
           /\ Times(e.handled_by, "console_handler") = 1
           /\ Times(e.handled_by, "otel_handler") = 1
    /\ \A l \in PrintedLines :
           \E e \in AllEntries : e.line = l /\ Times(e.handled_by, "otel_handler") = 1

\* C16: a request to an endpoint that has a card on the home page emits as
\* many records, from 'Request received' to 'Request completed' inclusive,
\* as the card shows: 7 for /api/users, 9 for /api/orders, 6 for /api/slow
\* and 6 for /error.
C16_LogCountsMatchCards ==
    \A r \in Slots :
        (pc[r] = "done" /\ path[r] \in DOMAIN CardLogs) =>
            /\ logs[r][1].record.msg = "Request received"
            /\ logs[r][Len(logs[r])].record.msg = "Request completed"
            /\ Len(logs[r]) = CardLogs[path[r]]

\* C17: in a /error request the error.type attribute the random choice
\* put on the 'error-operation' span is the error_type of the 500 response
\* body and of the 'Error occurred during request processing' record, and
\* it is that span, not the ended 'pre-error-work' span, that records the
\* exception and has status ERROR with str(e), the message of the exception.
C17_ErrorTypeAgrees ==
    \A r \in Slots :
        (path[r] = "/error" /\ exc[r].state = "caught") =>
            /\ Cardinality(SpansNamed(r, "error-operation")) = 1
            /\ \A i \in SpansNamed(r, "error-operation") :
                   /\ spans[r][i].attrs["error.type"] = rnd[r].error_type
                   /\ spans[r][i].exceptions = <<spans[r][i].attrs["error.type"]>>
                   /\ spans[r][i].status = "ERROR: " \o str_exc(exc[r])
                   /\ Responded(r) =>
                          /\ response[r].status = 500
                          /\ response[r].body.error_type = spans[r][i].attrs["error.type"]
                          /\ "ERROR: " \o response[r].body.error = spans[r][i].status
                          /\ Logged(r, "Error occurred during request processing") # {}
                   /\ \A k \in Logged(r, "Error occurred during request processing") :
                          /\ logs[r][k].line.error_type = spans[r][i].attrs["error.type"]
                          /\ logs[r][k].at = SpanContext(spans[r][i])
            /\ \A j \in SpansNamed(r, "pre-error-work") :
                   /\ spans[r][j].ends = 1
                   /\ spans[r][j].exceptions = <<>>
                   /\ spans[r][j].status = "UNSET"
                   /\ "error.type" \notin DOMAIN spans[r][j].attrs

\* A finished /error request that drew KeyError, with the attribute, the
\* body, the record and the span's status in agreement, next to a request
\* that drew ValueError and has logged the error.
C17_Witness ==
    /\ pc[1] = "done" /\ path[1] = "/error"
    /\ spans[1][2].name = "error-operation"
    /\ spans[1][2].attrs["error.type"] = "KeyError"
    /\ spans[1][2].exceptions = <<"KeyError">>
    /\ spans[1][2].status = "ERROR: 'Simulated key error - missing configuration'"
    /\ response[1].body.error_type = "KeyError"
    /\ logs[1][4].line.error_type = "KeyError"
    /\ path[2] = "/error" /\ pc[2] = "handler"
    /\ Logged(2, "Error occurred during request processing") = {4}
    /\ logs[2][4].line.error_type = "ValueError"

====
